---- MODULE Spec2Model ----
(***************************************************************************)
(* A model of the real-time session orchestrator of CRUX:                  *)
(*   app/services/game_session.py   GameSessionManager                     *)
(*   app/services/deepgram_service.py   LiveTranscription, TTS stream      *)
(*   app/services/llm_service.py    get_ai_response, evaluate_conversation *)
(*   app/db/db_service.py           the session store                      *)
(*   app/api/v1/endpoints/game.py   start_game, websocket_endpoint         *)
(*                                                                         *)
(* A text is a sequence of tokens.  The token "BREAK" stands for one       *)
(* occurrence of the five-letter delimiter; the word BREAK has no proper   *)
(* prefix that is also a suffix, so its occurrences in a Python string     *)
(* never overlap and a string is faithfully this token sequence.  " " is   *)
(* whitespace, "*" and "#" are the characters _clean_text_for_tts drops,   *)
(* every other token is an ordinary word.                                  *)
(***************************************************************************)
EXTENDS Integers, Sequences, FiniteSets, TLC

VARIABLES
    db_session,     \* the store's record of the session: <<>> (absent) or <<record>>
    db_scenario,    \* the store's record of the scenario: <<>> or <<record>>
    session,        \* self.session: <<>> (None) or <<[conversation_history, status]>>
    scenario,       \* self.scenario: <<>> (None) or <<record>>
    transcriber,    \* self.transcriber: 0 (None) or the index of a LiveTranscription
    stt,            \* every LiveTranscription object created so far
    is_active,      \* self.is_active
    client_state,   \* the WebSocket's client_state as receive() maintains it
    pc,             \* where run() / websocket_endpoint() stands
    attempt,        \* the loop variable of _load_session_data (0 outside the loop)
    reads,          \* number of websocket.receive() calls that returned or raised
    phase,          \* the lifecycle state of the orchestrator
    log             \* everything the orchestrator did, in order

vars == <<db_session, db_scenario, session, scenario, transcriber, stt,
          is_active, client_state, pc, attempt, reads, phase, log>>

-----------------------------------------------------------------------------
(* Bounds of the model.                                                    *)

MaxFrames == 3        \* client frames received on the connection
MaxPartials == 1      \* non-empty partial results the engine delivers to one stream
MaxTextLen == 4       \* tokens of an opening line of the delivery specification
MaxPastTurns == 2     \* completed user turns of a history of the anger specification

(* Program constants.                                                      *)
retries == 3

BREAK == "BREAK"
Whitespace == {" "}
Emphasis == {"*", "#"}

-----------------------------------------------------------------------------
(* Text functions.                                                         *)

HasBreak(text) == \E i \in 1..Len(text) : text[i] = BREAK

RECURSIVE lstrip(_)
lstrip(text) ==
    IF text # <<>> /\ Head(text) \in Whitespace THEN lstrip(Tail(text)) ELSE text

RECURSIVE rstrip(_)
rstrip(text) ==
    IF text # <<>> /\ text[Len(text)] \in Whitespace
    THEN rstrip(SubSeq(text, 1, Len(text) - 1))
    ELSE text

\* str.strip()
strip(text) == rstrip(lstrip(text))

\* str.split("BREAK"): the pieces between the occurrences, empty ones included
RECURSIVE split(_)
split(text) ==
    IF ~HasBreak(text) THEN <<text>>
    ELSE LET i == CHOOSE k \in 1..Len(text) :
                      text[k] = BREAK /\ \A j \in 1..(k - 1) : text[j] # BREAK
         IN  <<SubSeq(text, 1, i - 1)>> \o split(SubSeq(text, i + 1, Len(text)))

\* [msg.strip() for msg in text.split("BREAK") if msg.strip()]
StrippedPieces(text) ==
    LET pieces == split(text)
        stripped == [i \in 1..Len(pieces) |-> strip(pieces[i])]
    IN  SelectSeq(stripped, LAMBDA msg : msg # <<>>)

_split_angry_response(text) ==
    IF ~HasBreak(text) THEN <<text>> ELSE StrippedPieces(text)

_clean_text_for_tts(text) == SelectSeq(text, LAMBDA c : c \notin Emphasis)

-----------------------------------------------------------------------------
(* The inputs the environment chooses.                                     *)

\* scenario.initial_dialogue of the scenarios in the store
Openings == { <<"Hi">> }

\* response.text of the language model in get_ai_response
Replies == { <<"ok", " ">>, <<"A", BREAK, " ", "B">>, <<" ", BREAK>> }

\* result.channel.alternatives[0].transcript of one engine callback
Partials == { <<"sorry">>, <<" ">>, <<>> }

\* score of the evaluator's parsed response: EvaluationResult.score is any int
Scores == {7, 11}

\* what the engine's thread can deliver while start() is still running
EarlyPartials == { <<"sorry">> }

\* chunks one synthesis call yields.  0: the request failed (lines 126-129 and
\* 136-139 of deepgram_service.py), the generator ends without a chunk; an
\* answered request yields the audio in several chunks
ChunkCounts == {0, 2}

\* a send on the transport raises once the peer is gone: the peer goes after
\* this many further successful sends of the running handler (-1: it stays)
Drops == {-1} \cup (0..9)

-----------------------------------------------------------------------------
(* The log: frames offered to the transport (kind "text", "bytes",         *)
(* "close"; ok tells whether the transport took it), frames read from it   *)
(* ("recv"), calls of the collaborators ("call") and lifecycle changes     *)
(* ("phase").                                                              *)

Ev(kind, name, ok, data) == [kind |-> kind, name |-> name, ok |-> ok, data |-> data]

NoData == <<>>

Record(s, e) == [s EXCEPT !.log = Append(@, e)]

(* The lifecycle.  Loading: in _load_session_data.  Active: the load       *)
(* succeeded.  Evaluating: inside _handle_end_game.  Finished: is_active   *)
(* cleared by _handle_end_game's finally.  Disconnected: is_active cleared *)
(* by run (load failure, or an exception caught in the loop while the      *)
(* session was still active), or run left by an exception.                 *)
SetPhase(s, p) == Record([s EXCEPT !.phase = p], Ev("phase", p, TRUE, NoData))

Raised(s) == s.exc # "none"

-----------------------------------------------------------------------------
(* The transport.                                                          *)

\* websocket.send_text / websocket.send_bytes
ws_send(s, kind, name, data) ==
    IF s.budget = 0
    THEN [Record(s, Ev(kind, name, FALSE, data))
             EXCEPT !.exc = "WebSocketDisconnect", !.client_state = "DISCONNECTED"]
    ELSE [Record(s, Ev(kind, name, TRUE, data))
             EXCEPT !.budget = IF @ > 0 THEN @ - 1 ELSE @]

\* websocket.close(code): it raises like a send when the peer is gone
ws_close(s, code) ==
    IF s.budget = 0
    THEN [Record(s, Ev("close", code, FALSE, NoData))
             EXCEPT !.exc = "WebSocketDisconnect", !.client_state = "DISCONNECTED"]
    ELSE Record(s, Ev("close", code, TRUE, NoData))

_send_json(s, name, data) ==
    IF s.is_active THEN ws_send(s, "text", name, data) ELSE s

-----------------------------------------------------------------------------
(* Speech synthesis.  n is the number of chunks the HTTP stream yields; a  *)
(* failure inside text_to_speech_stream is swallowed there and only ends   *)
(* the stream early.                                                       *)

text_to_speech_stream(text, n) ==
    IF n = 0 THEN <<>> ELSE [j \in 1..n |-> [text |-> text, seq |-> j]]

\* b''.join(audio_chunks): the blob is the chunks in order
_generate_audio_for_message(text, n) == text_to_speech_stream(text, n)

\* one synthesis has ended; it failed when the generator gave no chunk.
\* index is the place of the text among the segments of its turn, from 0.
Synthesized(s, index, text, n) ==
    Record(s, Ev("call", "text_to_speech_stream", n # 0,
                 [index |-> index, text |-> text, chunks |-> n]))

\* the orders in which n concurrent tasks can end
CompletionOrders(n) == { f \in [1..n -> 1..n] : \A a, b \in 1..n : f[a] = f[b] => a = b }

\* the syntheses of an escalation turn run concurrently and end in the order
\* tts.order; k counts the ones that have ended
RECURSIVE GatherAudio(_, _, _, _)
GatherAudio(s, messages, tts, k) ==
    IF k > Len(messages) THEN s
    ELSE GatherAudio(Synthesized(s, tts.order[k] - 1,
                                 _clean_text_for_tts(messages[tts.order[k]]),
                                 tts.chunks[tts.order[k]]),
                     messages, tts, k + 1)

\* a variant of gather that lists the results as they were completed
gather_AsCompleted(audio_tasks, order) ==
    [k \in 1..Len(audio_tasks) |-> audio_tasks[order[k]]]

\* asyncio.gather(*audio_tasks): the results in the order of the awaitables,
\* whatever the order of completion
gather(audio_tasks, order) ==
    [i \in 1..Len(audio_tasks) |-> audio_tasks[i]]

\* a variant of SpamLoop that numbers the segments from 1
RECURSIVE SpamLoop_OneBased(_, _, _, _)
SpamLoop_OneBased(s, messages, audio_array, idx) ==
    IF idx >= Len(messages) \/ ~s.is_active THEN s
    ELSE LET s1 == _send_json(s, "spam_message",
                       [index |-> idx + 1, total |-> Len(messages),
                        text |-> messages[idx + 1]])
             s2 == IF audio_array[idx + 1] # <<>>
                   THEN ws_send(s1, "bytes", "bytes", [audio |-> audio_array[idx + 1]])
                   ELSE s1
         IN  IF Raised(s1) THEN s1
             ELSE IF Raised(s2) THEN s2
             ELSE SpamLoop_OneBased(s2, messages, audio_array, idx + 1)

RECURSIVE SpamLoop(_, _, _, _)
SpamLoop(s, messages, audio_array, idx) ==
    IF idx >= Len(messages) \/ ~s.is_active THEN s
    ELSE LET s1 == _send_json(s, "spam_message",
                       [index |-> idx, total |-> Len(messages), text |-> messages[idx + 1]])
             s2 == IF audio_array[idx + 1] # <<>>
                   THEN ws_send(s1, "bytes", "bytes", [audio |-> audio_array[idx + 1]])
                   ELSE s1
         IN  IF Raised(s1) THEN s1
             ELSE IF Raised(s2) THEN s2
             ELSE SpamLoop(s2, messages, audio_array, idx + 1)

\* a variant of _stream_angry_spam without the frame of line 132
_stream_angry_spam_Unterminated(s, messages, tts) ==
    LET s1 == _send_json(s, "angry_spam_streak", [message_count |-> Len(messages)])
        audio_tasks == [i \in 1..Len(messages) |->
                          _generate_audio_for_message(_clean_text_for_tts(messages[i]),
                                                      tts.chunks[i])]
        audio_array == gather(audio_tasks, tts.order)
        started == Record(s1, Ev("call", "asyncio.gather", TRUE,
                                 [count |-> Len(audio_tasks)]))
        s2 == SpamLoop(GatherAudio(started, messages, tts, 1), messages, audio_array, 0)
    IN  IF Raised(s1) THEN s1 ELSE s2

_stream_angry_spam(s, messages, tts) ==
    LET s1 == _send_json(s, "angry_spam_streak", [message_count |-> Len(messages)])
        audio_tasks == [i \in 1..Len(messages) |->
                          _generate_audio_for_message(_clean_text_for_tts(messages[i]),
                                                      tts.chunks[i])]
        audio_array == gather(audio_tasks, tts.order)
        started == Record(s1, Ev("call", "asyncio.gather", TRUE,
                                 [count |-> Len(audio_tasks)]))
        s2 == SpamLoop(GatherAudio(started, messages, tts, 1), messages, audio_array, 0)
    IN  IF Raised(s1) THEN s1
        ELSE IF Raised(s2) THEN s2
        ELSE _send_json(s2, "spam_streak_complete", NoData)

\* a variant of ChunkLoop that sends the chunks as one blob
ChunkLoop_Buffered(s, chunks, j) ==
    IF chunks # <<>> /\ s.is_active
    THEN ws_send(s, "bytes", "bytes", [audio |-> chunks])
    ELSE s

RECURSIVE ChunkLoop(_, _, _)
ChunkLoop(s, chunks, j) ==
    IF j > Len(chunks) THEN s
    ELSE LET s1 == IF s.is_active
                   THEN ws_send(s, "bytes", "bytes", [audio |-> <<chunks[j]>>])
                   ELSE s
         IN  IF Raised(s1) THEN s1 ELSE ChunkLoop(s1, chunks, j + 1)

\* syntheses one delivery of the text asks for
Syntheses(text) == IF HasBreak(text) THEN Len(_split_angry_response(text)) ELSE 1

\* what the provider does with the syntheses of one delivery: the chunks of
\* each and the order in which they end
TtsChoices(text) ==
    [chunks : [1..Syntheses(text) -> ChunkCounts], order : CompletionOrders(Syntheses(text))]

_stream_ai_audio(s, original_text, tts) ==
    IF HasBreak(original_text)
    THEN _stream_angry_spam(s, _split_angry_response(original_text), tts)
    ELSE LET s1 == _send_json(s, "ai_speaking", NoData)
             cleaned_text == _clean_text_for_tts(original_text)
             s2 == ChunkLoop(Synthesized(s1, 0, cleaned_text, tts.chunks[1]),
                             text_to_speech_stream(cleaned_text, tts.chunks[1]), 1)
             s3 == IF Raised(s2) THEN s2 ELSE _send_json(s2, "ai_finished_speaking", NoData)
         IN  IF Raised(s1) THEN s1
             ELSE IF Raised(s3)
                  THEN _send_json([s3 EXCEPT !.exc = "none"], "error",
                                  [message |-> "AI voice failed"])
                  ELSE s3

-----------------------------------------------------------------------------
(* LiveTranscription.  stream is the state of dg_connection: "idle" until  *)
(* start() opened it, "open" until finish() closed it.  forwarded is what  *)
(* dg_connection.send was given, delivered what the engine's thread handed *)
(* to the callback since the stream was opened (each partial followed by   *)
(* one space), partials their number.                                      *)

LiveTranscription ==
    [_is_active |-> FALSE, full_transcript |-> <<>>, stream |-> "idle",
     partials |-> 0, forwarded |-> <<>>, delivered |-> <<>>]

\* _on_transcript(result=...), called on the engine's thread
_on_transcript(t, partial) ==
    IF partial # <<>>
    THEN [t EXCEPT !.full_transcript = @ \o partial \o <<" ">>, !.partials = @ + 1,
                   !.delivered = @ \o partial \o <<" ">>]
    ELSE t

\* start(): opened tells whether dg_connection.start(options) returned True.
\* The callback is registered at line 45 and the stream is open when line 50
\* returns; early is what the engine's thread delivers before line 54 clears
\* the text (<<>>: nothing).
LiveTranscription_start(t, opened, early) ==
    IF opened
    THEN [_on_transcript([t EXCEPT !.stream = "open"], early)
             EXCEPT !._is_active = TRUE, !.full_transcript = <<>>]
    ELSE t

\* a variant of LiveTranscription_send that hands the chunk over twice
LiveTranscription_send_Twice(t, audio_chunk) ==
    IF t._is_active THEN [t EXCEPT !.forwarded = @ \o <<audio_chunk, audio_chunk>>] ELSE t

\* send(audio_chunk)
LiveTranscription_send(t, audio_chunk) ==
    IF t._is_active THEN [t EXCEPT !.forwarded = Append(@, audio_chunk)] ELSE t

\* stop(): the object after the call; the text it returns is StopText
LiveTranscription_stop(t) ==
    IF t._is_active THEN [t EXCEPT !._is_active = FALSE, !.stream = "closed"] ELSE t

StopText(t) == strip(t.full_transcript)

-----------------------------------------------------------------------------
(* The dialogue engine.  llm is what generate_content does: <<>> when it   *)
(* raises, <<text>> when it answers with response.text = text.             *)

LlmOutcomes == {<<>>} \cup { <<r>> : r \in Replies }

\* llm_service.py line 48
anger_triggers ==
    <<"fuck", "don't care", "break up", "grow up", "stop", "child", "whatever", "shut up">>

\* str.lower() of a word
lower(word) ==
    CASE word = "STOP" -> "stop"
      [] word = "Whatever" -> "whatever"
      [] word = "Shut Up" -> "shut up"
      [] OTHER -> word

\* the triggers that are substrings of a lower-case word
TriggersWithin(word) ==
    CASE word = "unstoppable" -> {"stop"}
      [] word = "childish" -> {"child"}
      [] \E k \in 1..Len(anger_triggers) : anger_triggers[k] = word -> {word}
      [] OTHER -> {}

\* trigger in msg, msg being the lower-cased message
TriggerIn(trigger, message) ==
    \E i \in 1..Len(message) : trigger \in TriggersWithin(lower(message[i]))

\* lines 47-49: sum(1 for msg in user_messages for trigger in anger_triggers
\* if trigger in msg)
anger_level(conversation_history) ==
    Cardinality({ p \in (1..Len(conversation_history)) \X (1..Len(anger_triggers)) :
                    /\ conversation_history[p[1]].role = "user"
                    /\ TriggerIn(anger_triggers[p[2]], conversation_history[p[1]].message) })

\* get_ai_response: <<>> when it raises LLMServiceError, else <<ai_message>>.
\* The log line on segments[0] raises when the answer holds the delimiter and
\* no segment.
get_ai_response(llm) ==
    IF llm = <<>> THEN <<>>
    ELSE LET ai_message == strip(llm[1])
         IN  IF HasBreak(ai_message) /\ StrippedPieces(ai_message) = <<>>
             THEN <<>>
             ELSE <<ai_message>>

\* evaluate_conversation: <<>> when it raises, else <<EvaluationResult>>
EvalOutcomes ==
    {<<>>} \cup { <<[score |-> n, justification |-> <<"fine">>]>> : n \in Scores }

ConversationEntry(role, message) == [role |-> role, message |-> message]

\* a variant of db_end_game_session that stores a score of its own
db_end_game_session_Zeroing(db, score, justification) ==
    IF db = <<>> THEN db
    ELSE <<[db[1] EXCEPT !.status = "finished", !.final_score = <<0>>,
                         !.final_justification = <<justification>>]>>

\* a variant of AppendHistory that keeps only the new entry
AppendHistory_Replacing(s, entry) ==
    [s EXCEPT !.session[1].conversation_history = <<entry>>]

\* a variant of AppendHistory that also saves the history to the store
AppendHistory_Persisting(s, entry) ==
    [s EXCEPT !.session[1].conversation_history = Append(@, entry),
              !.db_session = IF @ = <<>> THEN @
                             ELSE <<[@[1] EXCEPT !.conversation_history =
                                        Append(s.session[1].conversation_history, entry)]>>]

AppendHistory(s, entry) ==
    [s EXCEPT !.session[1].conversation_history = Append(@, entry)]

\* db_end_game_session: update_one sets the fields of the record, if there is one
db_end_game_session(db, score, justification) ==
    IF db = <<>> THEN db
    ELSE <<[db[1] EXCEPT !.status = "finished", !.final_score = <<score>>,
                         !.final_justification = <<justification>>]>>

-----------------------------------------------------------------------------
(* The handlers of GameSessionManager.                                     *)

_start_stt(s, opened, early) ==
    Record([s EXCEPT !.stt = Append(@, LiveTranscription_start(LiveTranscription,
                                                               opened, early)),
                     !.transcriber = Len(s.stt) + 1],
           Ev("call", "transcriber.start", opened, [transcriber |-> Len(s.stt) + 1]))

\* a variant of _handle_user_speech that forwards to whatever transcriber is set
_handle_user_speech_Unchecked(s, audio_chunk) ==
    IF s.transcriber # 0
    THEN Record([s EXCEPT !.stt[s.transcriber].forwarded = Append(@, audio_chunk)],
                Ev("call", "transcriber.send", TRUE,
                   [transcriber |-> s.transcriber, chunk |-> audio_chunk]))
    ELSE s

_handle_user_speech(s, audio_chunk) ==
    IF s.transcriber # 0 /\ s.stt[s.transcriber]._is_active
    THEN Record([s EXCEPT !.stt[s.transcriber] = LiveTranscription_send(@, audio_chunk)],
                Ev("call", "transcriber.send", TRUE,
                   [transcriber |-> s.transcriber, chunk |-> audio_chunk]))
    ELSE s

\* a variant of GenerateAndDeliver without the handler of lines 225-227
GenerateAndDeliver_Uncaught(s, llm, tts) ==
    LET response == get_ai_response(llm)
        s1 == Record(s, Ev("call", "get_ai_response", response # <<>>,
                           [anger_level |-> anger_level(s.session[1].conversation_history)]))
        s2 == AppendHistory(s1, ConversationEntry("ai", response[1]))
        s3 == _send_json(s2, "ai_response_text", [text |-> response[1]])
        s4 == IF Raised(s3) THEN s3 ELSE _stream_ai_audio(s3, response[1], tts)
    IN  IF response = <<>> THEN [s1 EXCEPT !.exc = "LLMServiceError"] ELSE s4

\* lines 211-227: the try block and its handler
GenerateAndDeliver(s, llm, tts) ==
    LET response == get_ai_response(llm)
        s1 == Record(s, Ev("call", "get_ai_response", response # <<>>,
                           [anger_level |-> anger_level(s.session[1].conversation_history)]))
        s2 == AppendHistory(s1, ConversationEntry("ai", response[1]))
        s3 == _send_json(s2, "ai_response_text", [text |-> response[1]])
        s4 == IF Raised(s3) THEN s3 ELSE _stream_ai_audio(s3, response[1], tts)
        caught == IF response = <<>> THEN s1 ELSE s4
    IN  IF response # <<>> /\ ~Raised(s4) THEN s4
        ELSE _send_json([caught EXCEPT !.exc = "none"], "error",
                        [message |-> "AI processing failed"])

_process_user_transcript(s, text, llm, tts) ==
    IF s.session = <<>> \/ s.scenario = <<>> THEN s
    ELSE LET s1 == _send_json(s, "user_response_text", [text |-> text])
             s2 == AppendHistory(s1, ConversationEntry("user", text))
             s3 == _send_json(s2, "ai_thinking", NoData)
         IN  IF Raised(s1) THEN s1
             ELSE IF Raised(s3) THEN s3
             ELSE GenerateAndDeliver(s3, llm, tts)

\* a variant of _stop_stt_and_process_transcript without the test of line 193
_stop_stt_Unchecked(s, llm, tts) ==
    IF s.transcriber = 0 THEN s
    ELSE LET transcript == StopText(s.stt[s.transcriber])
             s1 == Record([s EXCEPT !.stt[s.transcriber] = LiveTranscription_stop(@),
                                    !.transcriber = 0],
                          Ev("call", "transcriber.stop", TRUE,
                             [transcriber |-> s.transcriber, text |-> transcript]))
         IN  _process_user_transcript(s1, transcript, llm, tts)

\* a variant of _stop_stt_and_process_transcript without the frame of line 197
_stop_stt_Silent(s, llm, tts) ==
    IF s.transcriber = 0 THEN s
    ELSE LET transcript == StopText(s.stt[s.transcriber])
             s1 == Record([s EXCEPT !.stt[s.transcriber] = LiveTranscription_stop(@),
                                    !.transcriber = 0],
                          Ev("call", "transcriber.stop", TRUE,
                             [transcriber |-> s.transcriber, text |-> transcript]))
         IN  IF transcript # <<>> /\ strip(transcript) # <<>>
             THEN _process_user_transcript(s1, transcript, llm, tts)
             ELSE s1

_stop_stt_and_process_transcript(s, llm, tts) ==
    IF s.transcriber = 0 THEN s
    ELSE LET transcript == StopText(s.stt[s.transcriber])
             s1 == Record([s EXCEPT !.stt[s.transcriber] = LiveTranscription_stop(@),
                                    !.transcriber = 0],
                          Ev("call", "transcriber.stop", TRUE,
                             [transcriber |-> s.transcriber, text |-> transcript]))
         IN  IF transcript # <<>> /\ strip(transcript) # <<>>
             THEN _process_user_transcript(s1, transcript, llm, tts)
             ELSE _send_json(s1, "ai_finished_speaking", NoData)

\* a variant of EndGameFinally that leaves is_active set
EndGameFinally_StaysActive(s) == SetPhase(s, "Finished")

\* line 254, the finally clause
EndGameFinally(s) == SetPhase([s EXCEPT !.is_active = FALSE], "Finished")

\* a variant of EvaluateAndReport whose handler sends nothing
EvaluateAndReport_Silent(s, result, persisted) ==
    LET s1 == Record(s, Ev("call", "evaluate_conversation", result # <<>>,
                           IF result = <<>> THEN NoData ELSE result[1]))
        s2 == Record(s1, Ev("call", "db_end_game_session", persisted,
                            [score |-> result[1].score,
                             justification |-> result[1].justification]))
        s3 == [s2 EXCEPT !.db_session =
                  db_end_game_session(@, result[1].score, result[1].justification)]
        s4 == _send_json(s3, "game_over",
                         [score |-> result[1].score,
                          justification |-> result[1].justification])
        caught == IF result = <<>> THEN s1 ELSE IF ~persisted THEN s2 ELSE s4
    IN  IF result # <<>> /\ persisted /\ ~Raised(s4) THEN s4
        ELSE [caught EXCEPT !.exc = "none"]

\* a variant of EvaluateAndReport that sends the error frame on every path
EvaluateAndReport_ErrorAlways(s, result, persisted) ==
    LET s1 == Record(s, Ev("call", "evaluate_conversation", result # <<>>,
                           IF result = <<>> THEN NoData ELSE result[1]))
        s2 == Record(s1, Ev("call", "db_end_game_session", persisted,
                            [score |-> result[1].score,
                             justification |-> result[1].justification]))
        s3 == [s2 EXCEPT !.db_session =
                  db_end_game_session(@, result[1].score, result[1].justification)]
        s4 == _send_json(s3, "game_over",
                         [score |-> result[1].score,
                          justification |-> result[1].justification])
        caught == IF result = <<>> THEN s1 ELSE IF ~persisted THEN s2 ELSE s4
    IN  _send_json([caught EXCEPT !.exc = "none"], "error",
                   [message |-> "Game result failed"])

\* lines 235-252: the try block and its handler; persisted tells whether
\* db_end_game_session returns
EvaluateAndReport(s, result, persisted) ==
    LET s1 == Record(s, Ev("call", "evaluate_conversation", result # <<>>,
                           IF result = <<>> THEN NoData ELSE result[1]))
        s2 == Record(s1, Ev("call", "db_end_game_session", persisted,
                            [score |-> result[1].score,
                             justification |-> result[1].justification]))
        s3 == [s2 EXCEPT !.db_session =
                  db_end_game_session(@, result[1].score, result[1].justification)]
        s4 == _send_json(s3, "game_over",
                         [score |-> result[1].score,
                          justification |-> result[1].justification])
        caught == IF result = <<>> THEN s1 ELSE IF ~persisted THEN s2 ELSE s4
    IN  IF result # <<>> /\ persisted /\ ~Raised(s4) THEN s4
        ELSE _send_json([caught EXCEPT !.exc = "none"], "error",
                        [message |-> "Game result failed"])

_handle_end_game(s, result, persisted) ==
    IF s.session = <<>> \/ s.scenario = <<>> THEN s
    ELSE LET s1 == _send_json(SetPhase(s, "Evaluating"), "evaluating", NoData)
         IN  IF Raised(s1) THEN s1
             ELSE EndGameFinally(EvaluateAndReport(s1, result, persisted))

-----------------------------------------------------------------------------
(* The state machine.                                                      *)

\* The state a handler starts from.  Once the peer's disconnect was seen no
\* send succeeds any more.
Cur(drop) ==
    [db_session |-> db_session, session |-> session, scenario |-> scenario,
     transcriber |-> transcriber, stt |-> stt, is_active |-> is_active,
     client_state |-> client_state, phase |-> phase, log |-> log,
     exc |-> "none",
     budget |-> IF client_state = "DISCONNECTED" THEN 0 ELSE drop]

Commit(s) ==
    /\ db_session' = s.db_session
    /\ session' = s.session
    /\ scenario' = s.scenario
    /\ transcriber' = s.transcriber
    /\ stt' = s.stt
    /\ is_active' = s.is_active
    /\ client_state' = s.client_state
    /\ phase' = s.phase
    /\ log' = s.log

Init ==
    /\ db_session = <<>>
    /\ db_scenario \in { <<[initial_dialogue |-> o, character_gender |-> "female"]>> :
                            o \in Openings }
    /\ session = <<>>
    /\ scenario = <<>>
    /\ transcriber = 0
    /\ stt = <<>>
    /\ is_active = TRUE
    /\ client_state = "CONNECTED"
    /\ pc = "load"
    /\ attempt = 0
    /\ reads = 0
    /\ phase = "Loading"
    /\ log = <<>>

\* start_game / db_create_game_session: the store gets the session record
start_game ==
    /\ pc = "load"
    /\ db_session = <<>>
    /\ db_scenario # <<>>
    /\ db_session' = <<[status |-> "active",
                        conversation_history |->
                            <<ConversationEntry("ai", db_scenario[1].initial_dialogue)>>,
                        final_score |-> <<>>,
                        final_justification |-> <<>>]>>
    /\ UNCHANGED <<db_scenario, session, scenario, transcriber, stt, is_active,
                   client_state, pc, attempt, reads, phase, log>>

db_delete_scenario ==
    /\ pc = "load"
    /\ db_scenario # <<>>
    /\ db_scenario' = <<>>
    /\ UNCHANGED <<db_session, session, scenario, transcriber, stt, is_active,
                   client_state, pc, attempt, reads, phase, log>>

\* a variant of LoadFailed that tells the client before it closes
LoadFailed_Announcing(s) ==
    LET s0 == _send_json(s, "error", [message |-> "Invalid session"])
        s1 == ws_close(s0, "1008")
    IN  IF Raised(s0) THEN s0
        ELSE IF Raised(s1) THEN s1
        ELSE SetPhase([s1 EXCEPT !.is_active = FALSE], "Disconnected")

\* GameSession(**session_doc), db_service.py line 108: final_score is
\* Optional[int] with ge=0, le=10; a stored record outside it does not validate
StoredSessionValid(db) ==
    db[1].final_score = <<>> \/ db[1].final_score[1] \in 0..10

\* run, lines 258-261: the load failed
LoadFailed(s) ==
    LET s1 == ws_close(s, "1008")
    IN  IF Raised(s1) THEN s1
        ELSE SetPhase([s1 EXCEPT !.is_active = FALSE], "Disconnected")

\* run is left: by its return, or by an exception that goes to the endpoint
RunLeft(s) ==
    IF Raised(s)
    THEN /\ Commit(SetPhase([s EXCEPT !.exc = "none"], "Disconnected"))
         /\ pc' = "raised"
    ELSE /\ Commit(s)
         /\ pc' = "returned"

\* a variant of LoadAttempt that tries again when the scenario is missing
LoadAttempt_RetryingScenario ==
    /\ pc = "load"
    /\ attempt < retries
    /\ \E drop \in {-1, 0} :
       LET s0 == Cur(drop)
           s1 == [s0 EXCEPT !.session =
                     IF db_session = <<>> THEN <<>>
                     ELSE <<[conversation_history |-> db_session[1].conversation_history,
                             status |-> db_session[1].status]>>]
           s2 == [s1 EXCEPT !.scenario = db_scenario]
       IN  IF db_session # <<>> /\ ~StoredSessionValid(db_session)
           THEN /\ RunLeft([s0 EXCEPT !.exc = "ValidationError"])
                /\ attempt' = 0
           ELSE IF s1.session # <<>> /\ s2.scenario # <<>>
           THEN /\ Commit(SetPhase(s2, "Active"))
                /\ pc' = "opening"
                /\ attempt' = 0
           ELSE IF attempt + 1 < retries
                THEN /\ Commit(s2)
                     /\ pc' = "load"
                     /\ attempt' = attempt + 1
                ELSE /\ RunLeft(LoadFailed(s2))
                     /\ attempt' = 0
    /\ UNCHANGED <<db_scenario, reads>>

\* one iteration of the loop of _load_session_data, and what run does with
\* the result when the iteration decides it
LoadAttempt ==
    /\ pc = "load"
    /\ attempt < retries
    /\ \E drop \in {-1, 0} :
       LET s0 == Cur(drop)
           s1 == [s0 EXCEPT !.session =
                     IF db_session = <<>> THEN <<>>
                     ELSE <<[conversation_history |-> db_session[1].conversation_history,
                             status |-> db_session[1].status]>>]
           s2 == [s1 EXCEPT !.scenario = db_scenario]
       IN  IF db_session # <<>> /\ ~StoredSessionValid(db_session)
           THEN /\ RunLeft([s0 EXCEPT !.exc = "ValidationError"])
                /\ attempt' = 0
           ELSE IF s1.session # <<>>
           THEN IF s2.scenario # <<>>
                THEN /\ Commit(SetPhase(s2, "Active"))
                     /\ pc' = "opening"
                     /\ attempt' = 0
                ELSE /\ RunLeft(LoadFailed(s2))
                     /\ attempt' = 0
           ELSE IF attempt + 1 < retries
                THEN /\ Commit(s1)
                     /\ pc' = "load"
                     /\ attempt' = attempt + 1
                ELSE /\ RunLeft(LoadFailed(s1))
                     /\ attempt' = 0
    /\ UNCHANGED <<db_scenario, reads>>

\* a variant of OpeningTurn that enters the loop without the opening line
OpeningTurn_Skipped ==
    /\ pc = "opening"
    /\ pc' = "loop"
    /\ UNCHANGED <<db_session, db_scenario, session, scenario, transcriber, stt,
                   is_active, client_state, attempt, reads, phase, log>>

\* run, line 264: the opening line, outside the loop's try
OpeningTurn ==
    /\ pc = "opening"
    /\ \E drop \in Drops :
       \E tts \in TtsChoices(session[1].conversation_history[1].message) :
          LET s == _stream_ai_audio(Cur(drop),
                                    session[1].conversation_history[1].message, tts)
          IN  IF Raised(s)
              THEN /\ Commit(SetPhase([s EXCEPT !.exc = "none"], "Disconnected"))
                   /\ pc' = "raised"
              ELSE /\ Commit(s)
                   /\ pc' = "loop"
    /\ UNCHANGED <<db_scenario, attempt, reads>>

\* a variant of LoopCatch that leaves is_active set
LoopCatch_KeepsActive(s) ==
    IF ~Raised(s) THEN s
    ELSE IF s.is_active
         THEN SetPhase([s EXCEPT !.exc = "none"], "Disconnected")
         ELSE [s EXCEPT !.exc = "none"]

\* run, lines 286-291: what the loop does with an exception of the handler
LoopCatch(s) ==
    IF ~Raised(s) THEN s
    ELSE IF s.is_active
         THEN SetPhase([s EXCEPT !.is_active = FALSE, !.exc = "none"], "Disconnected")
         ELSE [s EXCEPT !.exc = "none"]

\* a variant of AtReceive whose loop does not test is_active
AtReceive_Unconditional == pc = "loop" /\ reads < MaxFrames

AtReceive == pc = "loop" /\ is_active /\ reads < MaxFrames

\* a variant of Received in which the loop has read one frame more before
\* the handler runs
Received_Ahead(drop, name) ==
    Record(Record(Cur(drop), Ev("recv", name, TRUE, NoData)),
           Ev("recv", "bytes", TRUE, NoData))

\* websocket.receive() returned the frame
Received(drop, name) == Record(Cur(drop), Ev("recv", name, TRUE, NoData))

Handled(s) ==
    /\ Commit(LoopCatch(s))
    /\ reads' = reads + 1
    /\ UNCHANGED <<db_scenario, pc, attempt>>

ReceiveStartSpeaking ==
    /\ AtReceive
    /\ client_state = "CONNECTED"
    /\ \E opened \in BOOLEAN :
          Handled(_start_stt(Received(-1, "start_speaking"), opened, <<>>))

\* start_speaking, the engine's thread running the callback inside start()
ReceiveStartSpeakingEarly ==
    /\ AtReceive
    /\ client_state = "CONNECTED"
    /\ \E early \in EarlyPartials :
          Handled(_start_stt(Received(-1, "start_speaking"), TRUE, early))

\* the transcript a stop_speaking frame would obtain now
PendingTranscript ==
    IF transcriber = 0 THEN <<>> ELSE StopText(stt[transcriber])

ReceiveStopSpeaking ==
    /\ AtReceive
    /\ client_state = "CONNECTED"
    /\ \E llm \in (IF PendingTranscript # <<>> THEN LlmOutcomes ELSE {<<>>}) :
       \E tts \in (IF get_ai_response(llm) # <<>>
                   THEN TtsChoices(get_ai_response(llm)[1]) ELSE TtsChoices(<<>>)) :
       \E drop \in Drops :
          Handled(_stop_stt_and_process_transcript(
                      Received(drop, "stop_speaking"), llm, tts))

ReceiveEndGame ==
    /\ AtReceive
    /\ client_state = "CONNECTED"
    /\ \E result \in EvalOutcomes, persisted \in BOOLEAN, drop \in Drops :
          /\ result = <<>> => persisted
          /\ Handled(_handle_end_game(Received(drop, "end_game"), result, persisted))

\* a text frame whose action is none of the three
ReceiveOtherAction ==
    /\ AtReceive
    /\ client_state = "CONNECTED"
    /\ Handled(Received(-1, "other_action"))

\* a text frame json.loads rejects, or one that is no JSON object
ReceiveMalformed ==
    /\ AtReceive
    /\ client_state = "CONNECTED"
    /\ Handled([Received(-1, "malformed") EXCEPT !.exc = "Exception"])

ReceiveBytes ==
    /\ AtReceive
    /\ client_state = "CONNECTED"
    /\ Handled(_handle_user_speech(Received(-1, "bytes"), reads + 1))

\* receive() returns the message of type websocket.disconnect: no branch of
\* the loop body takes it
ReceiveDisconnect ==
    /\ AtReceive
    /\ client_state = "CONNECTED"
    /\ Handled([Received(-1, "websocket.disconnect") EXCEPT !.client_state = "DISCONNECTED"])

\* receive() after the disconnect message raises
ReceiveRaises ==
    /\ AtReceive
    /\ client_state = "DISCONNECTED"
    /\ Handled([Record(Cur(-1), Ev("recv", "raise", FALSE, NoData)) EXCEPT !.exc = "Exception"])

\* the engine's thread delivers a partial result to an open stream.  A
\* binary frame is the client's audio chunk; its number among the frames
\* read identifies it.
OnTranscript ==
    /\ pc = "loop"
    /\ \E i \in 1..Len(stt), partial \in Partials :
          /\ stt[i].stream = "open"
          /\ stt[i].partials < MaxPartials
          /\ stt' = [stt EXCEPT ![i] = _on_transcript(@, partial)]
    /\ UNCHANGED <<db_session, db_scenario, session, scenario, transcriber, is_active,
                   client_state, pc, attempt, reads, phase, log>>

\* run, lines 293-301: the loop is left
RunCleanup ==
    /\ pc = "loop"
    /\ ~is_active
    /\ stt' = IF transcriber # 0 /\ stt[transcriber]._is_active
              THEN [stt EXCEPT ![transcriber] = LiveTranscription_stop(@)]
              ELSE stt
    /\ transcriber' = 0
    /\ pc' = "returned"
    /\ UNCHANGED <<db_session, db_scenario, session, scenario, is_active,
                   client_state, attempt, reads, phase, log>>

\* websocket_endpoint, lines 63-68
EndpointFinally ==
    /\ pc \in {"returned", "raised"}
    /\ log' = IF is_active
              THEN Append(log, Ev("close", "1000", client_state = "CONNECTED", NoData))
              ELSE log
    /\ pc' = "closed"
    /\ UNCHANGED <<db_session, db_scenario, session, scenario, transcriber, stt,
                   is_active, client_state, attempt, reads, phase>>

\* one pass of the loop body of run
Receive ==
    \/ ReceiveStartSpeaking
    \/ ReceiveStopSpeaking
    \/ ReceiveEndGame
    \/ ReceiveOtherAction
    \/ ReceiveMalformed
    \/ ReceiveBytes
    \/ ReceiveDisconnect
    \/ ReceiveRaises

Next ==
    \/ start_game
    \/ db_delete_scenario
    \/ LoadAttempt
    \/ OpeningTurn
    \/ Receive
    \/ OnTranscript
    \/ RunCleanup
    \/ EndpointFinally

Spec == Init /\ [][Next]_vars

\* the connection with every interleaving of start() and the engine's thread
NextTranscript ==
    \/ Next
    \/ ReceiveStartSpeakingEarly

TranscriptSpec == Init /\ [][NextTranscript]_vars

-----------------------------------------------------------------------------
(* The delivery specification: the connection up to its first receive,    *)
(* for every opening line of at most MaxTextLen tokens and the three-      *)
(* segment line "A BREAK B BREAK C".                                       *)

Tokens == {"a", " ", "*", BREAK}

Texts == UNION { [1..k -> Tokens] : k \in 0..MaxTextLen }

ThreeSegments == <<"A", " ", BREAK, " ", "B", " ", BREAK, " ", "C">>

InitDelivery ==
    /\ \E o \in Texts \cup {ThreeSegments} :
          /\ db_scenario = <<[initial_dialogue |-> o, character_gender |-> "female"]>>
          /\ db_session = <<[status |-> "active",
                             conversation_history |-> <<ConversationEntry("ai", o)>>,
                             final_score |-> <<>>,
                             final_justification |-> <<>>]>>
    /\ session = <<>>
    /\ scenario = <<>>
    /\ transcriber = 0
    /\ stt = <<>>
    /\ is_active = TRUE
    /\ client_state = "CONNECTED"
    /\ pc = "load"
    /\ attempt = 0
    /\ reads = 0
    /\ phase = "Loading"
    /\ log = <<>>

NextDelivery ==
    \/ LoadAttempt
    \/ OpeningTurn
    \/ (reads < 1 /\ Receive)
    \/ RunCleanup
    \/ EndpointFinally

DeliverySpec == InitDelivery /\ [][NextDelivery]_vars

-----------------------------------------------------------------------------
(* The store specification: connection after connection on the same        *)
(* session id, each one up to its second receive.  A connection gets a new *)
(* GameSessionManager; the store keeps its records.                        *)

\* a variant of Attach that also puts the stored session back to active
Attach_Reactivating ==
    /\ pc = "closed"
    /\ db_session' = IF db_session = <<>> THEN db_session
                     ELSE <<[db_session[1] EXCEPT !.status = "active"]>>
    /\ session' = <<>>
    /\ scenario' = <<>>
    /\ transcriber' = 0
    /\ stt' = <<>>
    /\ is_active' = TRUE
    /\ client_state' = "CONNECTED"
    /\ pc' = "load"
    /\ attempt' = 0
    /\ reads' = 0
    /\ phase' = "Loading"
    /\ log' = <<>>
    /\ UNCHANGED db_scenario

\* websocket_endpoint, lines 54-58: the next connection on the session id
Attach ==
    /\ pc = "closed"
    /\ session' = <<>>
    /\ scenario' = <<>>
    /\ transcriber' = 0
    /\ stt' = <<>>
    /\ is_active' = TRUE
    /\ client_state' = "CONNECTED"
    /\ pc' = "load"
    /\ attempt' = 0
    /\ reads' = 0
    /\ phase' = "Loading"
    /\ log' = <<>>
    /\ UNCHANGED <<db_session, db_scenario>>

NextStore ==
    \/ start_game
    \/ db_delete_scenario
    \/ LoadAttempt
    \/ OpeningTurn
    \/ (reads < 2 /\ Receive)
    \/ OnTranscript
    \/ RunCleanup
    \/ EndpointFinally
    \/ Attach

StoreSpec == Init /\ [][NextStore]_vars

\* _load_session_data is a coroutine of the event loop: once called it runs
\* on, each await (the store's answer, the sleep) returning
LoadingSpec == Init /\ [][NextStore]_vars /\ WF_vars(LoadAttempt)

-----------------------------------------------------------------------------
(* The anger specification: a session in its loop after some turns, the    *)
(* user's next utterance already recognized, up to its second receive.     *)

\* what the user said
Utterances ==
    { <<"sorry">>,
      <<"Whatever", " ", "STOP">>,
      <<"unstoppable", " ", "childish", " ", "Shut Up", " ", "stop">> }

\* an answer of the character that holds a trigger itself
PastReply == ConversationEntry("ai", <<"stop", " ", "it">>)

\* histories of k completed turns on top of the opening line
RECURSIVE Histories(_)
Histories(k) ==
    IF k = 0 THEN { <<ConversationEntry("ai", <<"Hi">>)>> }
    ELSE { h \o <<ConversationEntry("user", u), PastReply>> :
              h \in Histories(k - 1), u \in Utterances }

InitAnger ==
    /\ \E k \in 0..MaxPastTurns : \E h \in Histories(k) : \E u \in Utterances :
          /\ session = <<[conversation_history |-> h, status |-> "active"]>>
          /\ stt = <<_on_transcript(
                         LiveTranscription_start(LiveTranscription, TRUE, <<>>), u)>>
    /\ db_scenario = <<[initial_dialogue |-> <<"Hi">>, character_gender |-> "female"]>>
    /\ db_session = <<[status |-> "active",
                       conversation_history |-> <<ConversationEntry("ai", <<"Hi">>)>>,
                       final_score |-> <<>>,
                       final_justification |-> <<>>]>>
    /\ scenario = db_scenario
    /\ transcriber = 1
    /\ is_active = TRUE
    /\ client_state = "CONNECTED"
    /\ pc = "loop"
    /\ attempt = 0
    /\ reads = 0
    /\ phase = "Active"
    /\ log = <<>>

NextAnger ==
    \/ (reads < 2 /\ Receive)
    \/ RunCleanup
    \/ EndpointFinally

AngerSpec == InitAnger /\ [][NextAnger]_vars

-----------------------------------------------------------------------------
(* Reading the log.                                                        *)

IsFrame(e) == e.kind \in {"text", "bytes"}

\* a frame the transport took
IsSent(e) == IsFrame(e) /\ e.ok

IsSentStatus(e, name) == e.kind = "text" /\ e.ok /\ e.name = name

IsCall(e, name) == e.kind = "call" /\ e.name = name

IsRecv(e, name) == e.kind = "recv" /\ e.name = name

IsPhase(e, names) == e.kind = "phase" /\ e.name \in names

Names(l) == [i \in 1..Len(l) |-> l[i].name]

From(l, i) == SubSeq(l, i, Len(l))

CountIn(l, P(_)) == Cardinality({ i \in 1..Len(l) : P(l[i]) })

\* index of the first entry of l that satisfies P, 0 when there is none
FirstIndex(l, P(_)) ==
    IF \E i \in 1..Len(l) : P(l[i])
    THEN CHOOSE i \in 1..Len(l) : P(l[i]) /\ \A j \in 1..(i - 1) : ~P(l[j])
    ELSE 0

\* no send on the transport raised
AllSendsTaken == \A i \in 1..Len(log) : IsFrame(log[i]) => log[i].ok

IsPrefix(a, b) == Len(a) <= Len(b) /\ SubSeq(b, 1, Len(a)) = a

History == session[1].conversation_history

-----------------------------------------------------------------------------
(* C1.  end_game: one game_over frame and one transition into Finished.    *)

EndGameAt == FirstIndex(log, LAMBDA e : IsRecv(e, "end_game"))

GameOverCount == CountIn(log, LAMBDA e : IsSentStatus(e, "game_over"))

FinishedCount == CountIn(log, LAMBDA e : IsPhase(e, {"Finished"}))

EvaluationReturned ==
    \E i \in 1..Len(log) : IsCall(log[i], "evaluate_conversation") /\ log[i].ok

ScorePersisted ==
    \E i \in 1..Len(log) : IsCall(log[i], "db_end_game_session") /\ log[i].ok

PersistenceRaised ==
    \E i \in 1..Len(log) : IsCall(log[i], "db_end_game_session") /\ ~log[i].ok

\* C1 as claimed: once an end_game frame has been processed (every frame
\* taken by the transport, the store taking the score), exactly one
\* game_over frame has been sent and exactly one transition into Finished
\* made, whether the evaluation returned or raised.
C1_Original ==
    (EndGameAt # 0 /\ AllSendsTaken /\ ~PersistenceRaised) =>
        (GameOverCount = 1 /\ FinishedCount = 1)

\* C1 amended: once an end_game frame has been processed (every frame taken
\* by the transport), exactly one transition into Finished has been made;
\* exactly one game_over frame and no error frame has been sent when the
\* evaluation and the persistence call returned, and no game_over frame but
\* exactly one error frame when either raised.
C1_EndGameFinishesOnce ==
    (EndGameAt # 0 /\ AllSendsTaken) =>
        /\ FinishedCount = 1
        /\ LET errors == CountIn(From(log, EndGameAt),
                                 LAMBDA e : IsSentStatus(e, "error"))
           IN  IF EvaluationReturned /\ ScorePersisted
               THEN GameOverCount = 1 /\ errors = 0
               ELSE GameOverCount = 0 /\ errors = 1

C1_Witness ==
    /\ EndGameAt # 0
    /\ AllSendsTaken
    /\ ~EvaluationReturned
    /\ phase = "Finished"
    /\ ~is_active

-----------------------------------------------------------------------------
(* C2.                                                                     *)

\* C2: game_over is sent at most once, and after a game_over frame was sent
\* no text or binary frame is offered to the transport any more.
C2_GameOverIsLast ==
    \A i \in 1..Len(log) :
        IsSentStatus(log[i], "game_over") =>
            \A j \in (i + 1)..Len(log) : ~IsFrame(log[j])

C2_Witness == GameOverCount = 1 /\ pc = "closed"

-----------------------------------------------------------------------------
(* C3.                                                                     *)

OpenStreams == { i \in 1..Len(stt) : stt[i].stream = "open" }

\* C3 as claimed: at most one LiveTranscription the orchestrator started has
\* an open recognition stream.
C3_AtMostOneOpenStream == Cardinality(OpenStreams) <= 1

-----------------------------------------------------------------------------
(* C4.                                                                     *)

LeftActiveAt ==
    FirstIndex(log, LAMBDA e : IsPhase(e, {"Evaluating", "Finished", "Disconnected"}))

\* names of the frames sent since the orchestrator left Active
SentAfterLeaving ==
    IF LeftActiveAt = 0 THEN <<>>
    ELSE Names(SelectSeq(From(log, LeftActiveAt), IsSent))

\* C4 as claimed: once the orchestrator has left Active, the only frame it
\* sends is the single game_over frame.
C4_Original == SentAfterLeaving \in {<<>>, <<"game_over">>}

\* C4 amended: once the orchestrator has left Active, the only frames it
\* sends are the evaluating status frame and after it one terminal frame,
\* game_over or, when the evaluation or the persistence fails, error; no
\* other status frame and no binary audio frame is sent.
C4_OnlyEvaluationFramesAfterActive ==
    SentAfterLeaving \in {<<>>, <<"evaluating">>, <<"evaluating", "game_over">>,
                          <<"evaluating", "error">>}

C4_Witness == phase = "Finished" /\ SentAfterLeaving = <<"evaluating", "error">>

-----------------------------------------------------------------------------
(* C5.                                                                     *)

OpeningLine == scenario[1].initial_dialogue

FirstReadAt == FirstIndex(log, LAMBDA e : e.kind = "recv")

\* the frames offered to the transport before the first receive
FramesBeforeFirstRead ==
    SelectSeq(IF FirstReadAt = 0 THEN log ELSE SubSeq(log, 1, FirstReadAt - 1), IsFrame)

\* f is the whole frame sequence of one AI turn that delivers text
IsCompleteTurn(f, text) ==
    /\ Len(f) >= 2
    /\ \A k \in 1..Len(f) : f[k].ok
    /\ IF HasBreak(text)
       THEN LET t == SelectSeq(f, LAMBDA e : e.kind = "text")
            IN  /\ Len(t) >= 2
                /\ f[1].kind = "text" /\ f[1].name = "angry_spam_streak"
                /\ f[Len(f)].kind = "text" /\ f[Len(f)].name = "spam_streak_complete"
                /\ \A k \in 2..(Len(t) - 1) : t[k].name = "spam_message"
                /\ f[1].data.message_count = Len(t) - 2
       ELSE /\ f[1].kind = "text" /\ f[1].name = "ai_speaking"
            /\ f[Len(f)].kind = "text" /\ f[Len(f)].name = "ai_finished_speaking"
            /\ \A k \in 2..(Len(f) - 1) :
                  /\ f[k].kind = "bytes"
                  /\ f[k].data.audio[1].text = _clean_text_for_tts(text)

\* C5: whenever a client frame has been read, the frames sent before the
\* first read are the complete opening-line turn of the scenario's seeded
\* opening line, whatever that line is.
C5_OpeningBeforeFirstRead ==
    FirstReadAt # 0 => IsCompleteTurn(FramesBeforeFirstRead, OpeningLine)

C5_Witness ==
    /\ FirstReadAt # 0
    /\ HasBreak(OpeningLine)
    /\ Len(FramesBeforeFirstRead) >= 5

-----------------------------------------------------------------------------
(* C6, C7, C8: one stop_speaking frame.                                    *)

\* the step is the handling of one stop_speaking frame
StopStep ==
    /\ Len(log') > Len(log)
    /\ IsRecv(log'[Len(log) + 1], "stop_speaking")

NewEvents == SubSeq(log', Len(log) + 1, Len(log'))

EngineCalled == \E i \in 1..Len(NewEvents) : IsCall(NewEvents[i], "get_ai_response")

EngineReturned ==
    \E i \in 1..Len(NewEvents) : IsCall(NewEvents[i], "get_ai_response") /\ NewEvents[i].ok

\* the accumulated transcript of the current LiveTranscription is empty or
\* whitespace only
BlankTranscript == transcriber # 0 /\ strip(stt[transcriber].full_transcript) = <<>>

\* C6: handling a stop_speaking frame whose final transcript is empty or
\* whitespace-only does not call get_ai_response and leaves the
\* conversation history as it was.
C6_BlankTranscriptSkipsEngine ==
    [][(StopStep /\ BlankTranscript) => (~EngineCalled /\ session' = session)]_vars

C6_Witness ==
    \E i \in 1..Len(log) :
        /\ IsCall(log[i], "transcriber.stop")
        /\ log[i].data.text = <<>>
        /\ stt[log[i].data.transcriber].full_transcript # <<>>

C8_HistoryGrowth ==
    [][session # <<>> =>
          /\ session' # <<>>
          /\ IsPrefix(History, History')
          /\ (StopStep /\ EngineReturned) =>
                /\ Len(History') = Len(History) + 2
                /\ History'[Len(History) + 1] =
                       ConversationEntry("user", PendingTranscript)
                /\ History'[Len(History) + 2].role = "ai"
          /\ (StopStep /\ PendingTranscript = <<>>) => History' = History]_vars

C8_Witness ==
    /\ session # <<>>
    /\ Len(History) = 3
    /\ History[1].role = "ai" /\ History[2].role = "user" /\ History[3].role = "ai"
    /\ \E i \in 1..Len(log) : IsSentStatus(log[i], "spam_streak_complete")

-----------------------------------------------------------------------------
(* C9.                                                                     *)

TextFramesFrom(i) == SelectSeq(From(log, i), LAMBDA e : e.kind = "text" /\ e.ok)

\* C9: when an escalation turn is delivered (the transport taking every
\* frame), the status frames from its angry_spam_streak frame on are N
\* spam_message frames with index 0..N-1 and total N and then
\* spam_streak_complete, N being the message_count of the angry_spam_streak
\* frame; for the opening line N is the number of its segments and the
\* texts are the segments, "A", "B", "C" for "A BREAK B BREAK C".
C9_EscalationFrames ==
    \A i \in 1..Len(log) :
        (IsSentStatus(log[i], "angry_spam_streak") /\ AllSendsTaken) =>
            LET N == log[i].data.message_count
                t == TextFramesFrom(i + 1)
            IN  /\ Len(t) >= N + 1
                /\ \A k \in 1..N :
                      /\ t[k].name = "spam_message"
                      /\ t[k].data.index = k - 1
                      /\ t[k].data.total = N
                /\ t[N + 1].name = "spam_streak_complete"
                /\ (FirstReadAt = 0 \/ i < FirstReadAt) =>
                      /\ N = Len(_split_angry_response(OpeningLine))
                      /\ \A k \in 1..N :
                            t[k].data.text = _split_angry_response(OpeningLine)[k]
                      /\ OpeningLine = ThreeSegments =>
                            [k \in 1..N |-> t[k].data.text] = <<<<"A">>, <<"B">>, <<"C">>>>

C9_Witness ==
    /\ scenario # <<>>
    /\ OpeningLine = ThreeSegments
    /\ AllSendsTaken
    /\ \E i \in 1..Len(log) : IsSentStatus(log[i], "spam_streak_complete")

-----------------------------------------------------------------------------
(* C10.                                                                    *)

Occurrences(text) == Cardinality({ i \in 1..Len(text) : text[i] = BREAK })

\* the pieces of text between the delimiters, trimmed, the empty ones left
\* out, read off the text from left to right
RECURSIVE ScanSegments(_, _, _)
ScanSegments(text, piece, done) ==
    LET closed == IF strip(piece) = <<>> THEN done ELSE Append(done, strip(piece))
    IN  IF text = <<>> THEN closed
        ELSE IF Head(text) = BREAK THEN ScanSegments(Tail(text), <<>>, closed)
        ELSE ScanSegments(Tail(text), Append(piece, Head(text)), done)

\* the texts of the spam_message frames of the opening turn
OpeningSegments ==
    LET t == SelectSeq(FramesBeforeFirstRead, LAMBDA e : e.kind = "text" /\ e.name = "spam_message")
    IN  [k \in 1..Len(t) |-> t[k].data.text]

\* C10 as claimed: for an opening line that contains the delimiter, the
\* segment list delivered is the line split on the delimiter, each piece
\* trimmed, empty pieces removed, in order, and it has at least 1 and at
\* most (occurrences of the delimiter + 1) segments.
C10_SegmentList ==
    (pc = "loop" /\ reads = 0 /\ HasBreak(OpeningLine)) =>
        /\ OpeningSegments = ScanSegments(OpeningLine, <<>>, <<>>)
        /\ Len(OpeningSegments) >= 1
        /\ Len(OpeningSegments) <= Occurrences(OpeningLine) + 1

-----------------------------------------------------------------------------
(* C11.                                                                    *)

RecvIndexes == { i \in 1..Len(log) : log[i].kind = "recv" }

StatusNames == Names(SelectSeq(log, LAMBDA e : e.kind = "text"))

\* the log holds one stop_speaking frame, it is the last frame read, it gave
\* a non-empty transcript and the engine answered without the delimiter
FirstUserTurnDone ==
    /\ session # <<>>
    /\ scenario # <<>>
    /\ ~HasBreak(OpeningLine)
    /\ AllSendsTaken
    /\ \E i \in RecvIndexes :
          /\ IsRecv(log[i], "stop_speaking")
          /\ \A j \in RecvIndexes : j <= i /\ (j # i => ~IsRecv(log[j], "stop_speaking"))
          /\ i < Len(log)
          /\ IsCall(log[i + 1], "transcriber.stop")
          /\ log[i + 1].data.text # <<>>
    /\ \E k \in 1..Len(log) : IsCall(log[k], "get_ai_response") /\ log[k].ok
    /\ ~HasBreak(History[Len(History)].message)

\* the synthesis requested at log[k] is framed by ai_speaking and
\* ai_finished_speaking, with one binary frame per chunk in between, in the
\* order of production
ChunksFramed(k) ==
    LET n == log[k].data.chunks
    IN  /\ k > 1 /\ IsSentStatus(log[k - 1], "ai_speaking")
        /\ Len(log) >= k + n + 1
        /\ \A j \in 1..n :
              /\ log[k + j].kind = "bytes"
              /\ log[k + j].data.audio = <<[text |-> log[k].data.text, seq |-> j]>>
        /\ IsSentStatus(log[k + n + 1], "ai_finished_speaking")

\* C11: for a session whose history starts with one ai entry without the
\* delimiter, once the first user turn (non-empty transcript, delimiter-free
\* reply, every frame taken by the transport) is done, the status frames
\* sent are ai_speaking, ai_finished_speaking, user_response_text,
\* ai_thinking, ai_response_text, ai_speaking, ai_finished_speaking in this
\* order, every binary frame lies between the ai_speaking and the
\* ai_finished_speaking of its turn, one per synthesized chunk in the order
\* of production, and the history has 3 entries.
C11_FirstTurnFrames ==
    FirstUserTurnDone =>
        /\ StatusNames = <<"ai_speaking", "ai_finished_speaking", "user_response_text",
                           "ai_thinking", "ai_response_text", "ai_speaking",
                           "ai_finished_speaking">>
        /\ \A k \in 1..Len(log) : IsCall(log[k], "text_to_speech_stream") => ChunksFramed(k)
        /\ \A b \in 1..Len(log) :
              log[b].kind = "bytes" =>
                  \E k \in 1..(b - 1) :
                      /\ IsCall(log[k], "text_to_speech_stream")
                      /\ b <= k + log[k].data.chunks
        /\ Len(History) = 3
        /\ History[1].role = "ai" /\ History[2].role = "user" /\ History[3].role = "ai"
        /\ \E i \in 1..Len(log) :
              /\ IsCall(log[i], "transcriber.stop")
              /\ History[2].message = log[i].data.text

C11_Witness ==
    /\ FirstUserTurnDone
    /\ CountIn(log, LAMBDA e : e.kind = "bytes") = 4
    /\ History[2] = ConversationEntry("user", <<"sorry">>)
    /\ History[3] = ConversationEntry("ai", <<"ok">>)

-----------------------------------------------------------------------------
(* C12.                                                                    *)

\* _load_session_data returned False: the retries are exhausted without a
\* session, or the session's scenario is missing
LoadHasFailed == pc # "load" /\ (session = <<>> \/ scenario = <<>>)

\* C12: when loading has failed (no session after the retries, or the
\* scenario missing), the orchestrator is Disconnected, it has offered the
\* transport exactly one close with code 1008 and it is cleared once that
\* close was taken, no status or binary frame was sent, no client frame was
\* read, and Active was never entered.
C12_LoadFailureCloses ==
    LoadHasFailed =>
        /\ phase = "Disconnected"
        /\ CountIn(log, LAMBDA e : e.kind = "close" /\ e.name = "1008") = 1
        /\ log[1].kind = "close" /\ log[1].name = "1008"
        /\ log[1].ok => (~is_active /\ CountIn(log, LAMBDA e : e.kind = "close") = 1)
        /\ \A i \in 1..Len(log) : ~IsFrame(log[i]) /\ log[i].kind # "recv"
        /\ \A i \in 1..Len(log) : ~IsPhase(log[i], {"Active", "Evaluating", "Finished"})
        /\ reads = 0

C12_Witness ==
    /\ LoadHasFailed
    /\ session # <<>>
    /\ pc = "closed"
    /\ log[1].ok

-----------------------------------------------------------------------------
(* C13.                                                                    *)

\* the step is one iteration of the loop of _load_session_data: one call of
\* db_get_game_session
GetSessionStep == pc = "load" /\ (pc' # "load" \/ attempt' # attempt)

\* C13: loading ends.  An iteration of the load loop is at most the 3rd
\* call of db_get_game_session of the run; it makes the load succeed at
\* once when the store returns the session and has its scenario, makes it
\* fail at once when the store returns the session but has not its
\* scenario, leaves run by the exception when the stored record does not
\* validate, and otherwise goes to the next attempt unless it was the 3rd;
\* run never comes back to loading; and a run that is loading eventually
\* leaves loading.
C13_LoadingTerminates ==
    /\ [][/\ GetSessionStep =>
                /\ attempt + 1 <= 3
                /\ (db_session # <<>> /\ StoredSessionValid(db_session)
                                      /\ db_scenario # <<>>) =>
                      (pc' = "opening" /\ phase' = "Active" /\ ~LoadHasFailed')
                /\ (db_session # <<>> /\ StoredSessionValid(db_session)
                                      /\ db_scenario = <<>>) =>
                      (pc' \in {"returned", "raised"} /\ LoadHasFailed')
                /\ (db_session # <<>> /\ ~StoredSessionValid(db_session)) =>
                      pc' = "raised"
                /\ db_session = <<>> =>
                      IF attempt + 1 < 3
                      THEN pc' = "load" /\ attempt' = attempt + 1
                      ELSE pc' \in {"returned", "raised"} /\ LoadHasFailed'
          /\ (pc \notin {"load", "closed"}) => pc' # "load"]_vars
    /\ (pc = "load") ~> (pc # "load")

\* two attempts found no session, the store has it for the third
C13_Witness ==
    /\ pc = "load"
    /\ attempt = 2
    /\ db_session # <<>>
    /\ db_scenario # <<>>

-----------------------------------------------------------------------------
(* C14.                                                                    *)

EndGameStep ==
    /\ Len(log') > Len(log)
    /\ IsRecv(log'[Len(log) + 1], "end_game")

\* C14: the stored session record stays, whatever connections come and go;
\* its status changes only from active to finished (so at most once), and
\* only in the handling of an end_game frame in which db_end_game_session
\* returned.
C14_FinishedOnce ==
    [][db_session # <<>> =>
          /\ db_session' # <<>>
          /\ db_session'[1].status # db_session[1].status =>
                /\ db_session[1].status = "active"
                /\ db_session'[1].status = "finished"
                /\ EndGameStep
                /\ \E i \in 1..Len(NewEvents) :
                      IsCall(NewEvents[i], "db_end_game_session") /\ NewEvents[i].ok
          /\ db_session[1].status = "finished" => db_session'[1].status = "finished"]_vars

\* a later connection ended the game of a record that was finished already
C14_Witness ==
    /\ db_session # <<>> /\ db_session[1].status = "finished"
    /\ session # <<>> /\ session[1].status = "finished"
    /\ ScorePersisted
    /\ phase = "Finished"

-----------------------------------------------------------------------------
(* C15.                                                                    *)

\* the step handles a stop_speaking frame and get_ai_response raises in it
EngineFailedStep == StopStep /\ EngineCalled /\ ~EngineReturned

\* C15: when get_ai_response raises in a user turn (the transport taking
\* the frames), the frames of the turn are user_response_text, ai_thinking
\* and exactly one error frame, the orchestrator is still Active and back
\* at the receive of its loop with the connection up, so the next client
\* frame is read and handled.
C15_EngineFailureIsNotFatal ==
    [][(EngineFailedStep /\ client_state' = "CONNECTED") =>
          /\ Names(SelectSeq(NewEvents, IsFrame)) =
                 <<"user_response_text", "ai_thinking", "error">>
          /\ \A i \in 1..Len(NewEvents) : IsFrame(NewEvents[i]) => NewEvents[i].ok
          /\ is_active'
          /\ phase' = "Active"
          /\ pc' = "loop"]_vars

\* after the failed turn an end_game frame was read and answered
C15_Witness ==
    /\ GameOverCount = 1
    /\ \E i \in 1..Len(log) :
          /\ IsCall(log[i], "get_ai_response") /\ ~log[i].ok
          /\ IsSentStatus(log[i + 1], "error")
          /\ i < EndGameAt

-----------------------------------------------------------------------------
(* C16.                                                                    *)

\* index of the first frame read after log[k], Len(log) + 1 when there is none
NextReadAfter(k) ==
    IF \E j \in (k + 1)..Len(log) : log[j].kind = "recv"
    THEN CHOOSE j \in (k + 1)..Len(log) :
             log[j].kind = "recv" /\ \A m \in (k + 1)..(j - 1) : log[m].kind # "recv"
    ELSE Len(log) + 1

\* C16 as claimed: when a synthesis request of a turn failed (the transport
\* taking every frame), an error frame is sent in that turn, no further
\* frame of the turn follows it, and the session is still Active.
C16_SynthesisFailureReported ==
    \A k \in 1..Len(log) :
        (IsCall(log[k], "text_to_speech_stream") /\ ~log[k].ok /\ AllSendsTaken) =>
            \E j \in (k + 1)..(NextReadAfter(k) - 1) :
                /\ IsSentStatus(log[j], "error")
                /\ \A m \in (j + 1)..(NextReadAfter(k) - 1) : ~IsFrame(log[m])

-----------------------------------------------------------------------------
(* C17.                                                                    *)

\* C17: once an end_game frame has been handled (the transport taking the
\* frames of the handling), the orchestrator has gone through Evaluating
\* into Finished, is_active is cleared so that the loop ends, no client
\* frame was read after the end_game frame, and when the evaluation or the
\* persistence call raised an error frame was sent.
C17_EndGameTerminates ==
    (EndGameAt # 0 /\ AllSendsTaken) =>
        /\ phase = "Finished"
        /\ ~is_active
        /\ ~AtReceive
        /\ \A j \in (EndGameAt + 1)..Len(log) : log[j].kind # "recv"
        /\ Names(SelectSeq(From(log, EndGameAt), LAMBDA e : e.kind = "phase")) =
               <<"Evaluating", "Finished">>
        /\ (~EvaluationReturned \/ PersistenceRaised) =>
               \E j \in (EndGameAt + 1)..Len(log) : IsSentStatus(log[j], "error")

C17_Witness ==
    /\ EndGameAt # 0
    /\ AllSendsTaken
    /\ PersistenceRaised
    /\ pc = "closed"
    /\ reads < MaxFrames

-----------------------------------------------------------------------------
(* C18.                                                                    *)

\* the orchestrator sees that the peer is gone: a send or close raises, or
\* receive gives the disconnect message
ShowsDisconnect(e) ==
    \/ e.kind \in {"text", "bytes", "close"} /\ ~e.ok
    \/ IsRecv(e, "websocket.disconnect")

DisconnectSeenAt == FirstIndex(log, ShowsDisconnect)

\* C18 as claimed: after a disconnect was observed in the session (in the
\* opening-line delivery, in receive, or in a turn), no client frame is
\* handled and no send or close is attempted on the transport.
C18_NothingAfterDisconnect ==
    (DisconnectSeenAt # 0 /\ ~LoadHasFailed) =>
        \A j \in (DisconnectSeenAt + 1)..Len(log) :
            /\ log[j].kind \notin {"text", "bytes", "close"}
            /\ log[j].kind = "recv" => ~log[j].ok

-----------------------------------------------------------------------------
(* C19.                                                                    *)

\* run has returned or was left by an exception
RunEnded == pc \in {"returned", "raised", "closed"}

\* C19 as claimed: when run has ended, no LiveTranscription the session
\* started has its recognition stream still open.
C19_NoStreamLeftOpen == RunEnded => OpenStreams = {}

-----------------------------------------------------------------------------
(* C20.                                                                    *)

\* the lifecycle states gone through, in order
PhaseTrail == <<"Loading">> \o Names(SelectSeq(log, LAMBDA e : e.kind = "phase"))

Edges ==
    { <<"Loading", "Active">>, <<"Active", "Evaluating">>, <<"Evaluating", "Finished">>,
      <<"Loading", "Disconnected">>, <<"Active", "Disconnected">>,
      <<"Evaluating", "Disconnected">> }

Terminal == {"Finished", "Disconnected"}

\* C20: the lifecycle states gone through follow the edges
\* Loading -> Active -> Evaluating -> Finished and
\* Loading / Active / Evaluating -> Disconnected; after the entry into
\* Finished or Disconnected no client frame is read, and from a state that
\* is Finished or Disconnected no step changes the lifecycle state, reads
\* a frame or adds a frame to the log.
C20_LifecycleEdges ==
    /\ [](/\ phase = PhaseTrail[Len(PhaseTrail)]
          /\ \A k \in 1..(Len(PhaseTrail) - 1) :
                <<PhaseTrail[k], PhaseTrail[k + 1]>> \in Edges
          /\ \A i \in 1..Len(log) :
                IsPhase(log[i], Terminal) =>
                    \A j \in (i + 1)..Len(log) : log[j].kind # "recv"
          /\ phase \in Terminal => ~AtReceive)
    /\ [][(phase \in Terminal) =>
             /\ phase' = phase
             /\ reads' = reads
             /\ \A j \in (Len(log) + 1)..Len(log') :
                   (~IsFrame(log'[j]) /\ ~(log'[j].kind = "recv"))]_vars

C20_Witness ==
    /\ PhaseTrail = <<"Loading", "Active", "Evaluating", "Disconnected">>
    /\ pc = "closed"

-----------------------------------------------------------------------------
(* C21.                                                                    *)

\* C21 as claimed: every score handed to db_end_game_session and every
\* score of a game_over frame is an integer in 0..10.
C21_ScoreInRange ==
    \A i \in 1..Len(log) :
        (IsCall(log[i], "db_end_game_session") \/ IsSentStatus(log[i], "game_over")) =>
            log[i].data.score \in 0..10

-----------------------------------------------------------------------------
(* C23.                                                                    *)

\* C23: a game_over frame is sent only right after db_end_game_session
\* returned, which was called right after evaluate_conversation returned;
\* score and justification of the frame are those evaluate_conversation
\* returned, those passed to db_end_game_session, and those the store now
\* holds for the session.
C23_GameOverAfterPersist ==
    \A i \in 1..Len(log) :
        (log[i].kind = "text" /\ log[i].name = "game_over") =>
            /\ i > 2
            /\ IsCall(log[i - 1], "db_end_game_session") /\ log[i - 1].ok
            /\ IsCall(log[i - 2], "evaluate_conversation") /\ log[i - 2].ok
            /\ log[i].data = log[i - 2].data
            /\ log[i].data = log[i - 1].data
            /\ db_session # <<>>
            /\ db_session[1].status = "finished"
            /\ db_session[1].final_score = <<log[i].data.score>>
            /\ db_session[1].final_justification = <<log[i].data.justification>>

C23_Witness ==
    /\ GameOverCount = 1
    /\ db_session # <<>>
    /\ db_session[1].final_score = <<11>>
    /\ pc = "closed"

-----------------------------------------------------------------------------
(* C22.                                                                    *)

\* the markers found in one message, each marker counted once
RECURSIVE MarkersFound(_, _)
MarkersFound(message, k) ==
    IF k = 0 THEN 0
    ELSE MarkersFound(message, k - 1)
         + (IF TriggerIn(anger_triggers[k], message) THEN 1 ELSE 0)

\* the markers found in the user entries of a history
RECURSIVE HostilityCount(_)
HostilityCount(h) ==
    IF h = <<>> THEN 0
    ELSE HostilityCount(Tail(h))
         + (IF Head(h).role = "user"
            THEN MarkersFound(Head(h).message, Len(anger_triggers)) ELSE 0)

\* the history get_ai_response was given at log[i]
HistoryAt(i) ==
    IF \E j \in (i + 1)..Len(log) : IsSentStatus(log[j], "ai_response_text")
    THEN SubSeq(History, 1, Len(History) - 1)
    ELSE History

\* C22 as claimed: the anger level of every generation request is in 0..5;
\* it is the number of marker matches in the user entries of the history
\* (ai entries not counted), saturated at 5.
C22_AngerLevelSaturated ==
    \A i \in 1..Len(log) :
        IsCall(log[i], "get_ai_response") =>
            /\ log[i].data.anger_level \in 0..5
            /\ log[i].data.anger_level =
                   (IF HostilityCount(HistoryAt(i)) > 5 THEN 5
                    ELSE HostilityCount(HistoryAt(i)))

-----------------------------------------------------------------------------
(* C24, C25: start_speaking and audio chunks.                              *)

StartStep ==
    /\ Len(log') > Len(log)
    /\ IsRecv(log'[Len(log) + 1], "start_speaking")

BytesStep ==
    /\ Len(log') > Len(log)
    /\ IsRecv(log'[Len(log) + 1], "bytes")

\* the engine did not open the stream of the start of this step
StartFailed ==
    \E i \in 1..Len(NewEvents) : IsCall(NewEvents[i], "transcriber.start") /\ ~NewEvents[i].ok

\* the LiveTranscription of the last start_speaking is one whose start failed
AfterFailedStart == transcriber # 0 /\ stt[transcriber].stream = "idle"

\* C24: when the engine rejects the start of a start_speaking frame, the
\* step sends no frame and ends Active at the loop's receive, no exception
\* having reached the loop; a binary frame read while the LiveTranscription
\* of that start is the current one is forwarded to no engine and sends
\* no frame.
C24_FailedStartIsSilent ==
    [][/\ (StartStep /\ StartFailed) =>
             /\ \A i \in 1..Len(NewEvents) : ~IsFrame(NewEvents[i])
             /\ is_active' /\ phase' = "Active" /\ pc' = "loop"
             /\ client_state' = client_state
             /\ AfterFailedStart'
       /\ (BytesStep /\ AfterFailedStart) =>
             /\ stt' = stt
             /\ Len(NewEvents) = 1
             /\ is_active' /\ phase' = "Active" /\ pc' = "loop"
             /\ AfterFailedStart']_vars

C24_Witness ==
    /\ AfterFailedStart
    /\ phase = "Active"
    /\ \E i \in 1..(Len(log) - 1) :
          /\ IsCall(log[i], "transcriber.start") /\ ~log[i].ok
          /\ IsRecv(log[i + 1], "bytes")

\* a LiveTranscription is set and started
SessionOpen == transcriber # 0 /\ stt[transcriber]._is_active

\* C25: a binary frame read while no LiveTranscription is open (none set,
\* start failed, stopped) changes nothing of the orchestrator and sends no
\* frame; one read while a LiveTranscription is open is handed to that
\* object's engine once, after the chunks handed over before, and to no
\* other; so what an engine was given are chunks read, each once, in the
\* order read.
C25_ChunkForwarding ==
    /\ [][BytesStep =>
             /\ Len(NewEvents) = (IF SessionOpen THEN 2 ELSE 1)
             /\ UNCHANGED <<db_session, session, scenario, transcriber, is_active,
                            client_state, pc, phase>>
             /\ stt' = (IF SessionOpen
                        THEN [stt EXCEPT ![transcriber].forwarded = Append(@, reads + 1)]
                        ELSE stt)]_vars
    /\ [](\A i \in 1..Len(stt) :
             \A a, b \in 1..Len(stt[i].forwarded) :
                a < b => stt[i].forwarded[a] < stt[i].forwarded[b])

C25_Witness ==
    /\ SessionOpen
    /\ stt[transcriber].forwarded = <<2, 3>>

-----------------------------------------------------------------------------
(* C26, C27: the text of stop().                                           *)

\* C26 as claimed: the text a stop() returned is what the engine delivered
\* to that LiveTranscription since its stream was opened, each partial
\* followed by one space, in order, trimmed.
C26_StopReturnsDelivered ==
    \A i \in 1..Len(log) :
        IsCall(log[i], "transcriber.stop") =>
            log[i].data.text = strip(stt[log[i].data.transcriber].delivered)

\* C27 as claimed: stop() on a LiveTranscription that is not started (never
\* started, start failed, stopped) returns empty text and leaves the
\* object and its stream as they are.
C27_StopIdempotent ==
    \A i \in 1..Len(stt) :
        ~stt[i]._is_active =>
            /\ LiveTranscription_stop(stt[i]) = stt[i]
            /\ StopText(LiveTranscription_stop(stt[i])) = <<>>

-----------------------------------------------------------------------------
(* C28.                                                                    *)

IsEngineCall(e) == IsCall(e, "get_ai_response") \/ IsCall(e, "evaluate_conversation")

\* what the orchestrator did between the read at log[i] and the next read
Handling(i) == SubSeq(log, i + 1, NextReadAfter(i) - 1)

TurnFrames ==
    {"user_response_text", "ai_thinking", "ai_response_text", "ai_speaking", "bytes",
     "ai_finished_speaking", "angry_spam_streak", "spam_message", "spam_streak_complete",
     "error"}

\* C28: the frames and engine calls of the log lie between the read of the
\* client frame that caused them and the next read: at most one engine call
\* per frame read, get_ai_response and turn frames only after a
\* stop_speaking frame, evaluate_conversation and evaluation frames only
\* after an end_game frame, nothing after any other frame; and when a
\* further frame was read after a turn whose reply was generated, the turn
\* had been delivered up to its closing frame.
C28_SingleConsumer ==
    \A i \in RecvIndexes :
        LET h == Handling(i)
            frames == SelectSeq(h, IsFrame)
        IN  /\ CountIn(h, IsEngineCall) <= 1
            /\ log[i].name \notin {"stop_speaking", "end_game"} =>
                   (frames = <<>> /\ CountIn(h, IsEngineCall) = 0)
            /\ log[i].name = "stop_speaking" =>
                   /\ \A k \in 1..Len(h) : ~IsCall(h[k], "evaluate_conversation")
                   /\ \A k \in 1..Len(frames) : frames[k].name \in TurnFrames
            /\ log[i].name = "end_game" =>
                   /\ \A k \in 1..Len(h) : ~IsCall(h[k], "get_ai_response")
                   /\ \A k \in 1..Len(frames) :
                          frames[k].name \in {"evaluating", "game_over", "error"}
            /\ (NextReadAfter(i) <= Len(log)
                   /\ \E k \in 1..Len(h) : IsCall(h[k], "get_ai_response") /\ h[k].ok) =>
                   /\ frames # <<>>
                   /\ frames[Len(frames)].name \in
                          {"ai_finished_speaking", "spam_streak_complete"}

\* a generated turn and, after it, an evaluation
C28_Witness ==
    /\ EvaluationReturned
    /\ \E i \in 1..Len(log) :
          /\ IsCall(log[i], "get_ai_response") /\ log[i].ok
          /\ i < EndGameAt
    /\ pc = "closed"

-----------------------------------------------------------------------------
(* C29, C30.                                                               *)

\* the angry_spam_streak frames the transport took
StreakStarts == { i \in 1..Len(log) : IsSentStatus(log[i], "angry_spam_streak") }

\* the ended syntheses of the escalation turn announced at log[i], in the
\* order in which they ended
EndedSyntheses(i) ==
    [k \in 1..log[i].data.message_count |-> log[i + 1 + k]]

\* the ended synthesis of segment idx of the escalation turn announced at log[i]
SynthesisOfSegment(i, idx) ==
    LET done == EndedSyntheses(i)
    IN  done[CHOOSE k \in 1..Len(done) : done[k].data.index = idx]

\* a frame reduced to what identifies a segment's text or a blob
FrameContent(e) ==
    [kind |-> e.kind,
     name |-> e.name,
     index |-> IF e.name = "spam_message" THEN e.data.index ELSE -1,
     text |-> IF e.name = "spam_message" THEN _clean_text_for_tts(e.data.text) ELSE <<>>,
     audio |-> IF e.kind = "bytes" THEN e.data.audio ELSE <<>>]

\* text of segment idx, then the result of its synthesis when it is not
\* empty, for the segments idx..N-1 of the escalation turn announced at log[i]
RECURSIVE SegmentFrames(_, _)
SegmentFrames(i, idx) ==
    IF idx >= log[i].data.message_count THEN <<>>
    ELSE LET ev == SynthesisOfSegment(i, idx)
             result == text_to_speech_stream(ev.data.text, ev.data.chunks)
         IN  <<[kind |-> "text", name |-> "spam_message", index |-> idx,
                text |-> ev.data.text, audio |-> <<>>]>>
             \o (IF result = <<>> THEN <<>>
                 ELSE <<[kind |-> "bytes", name |-> "bytes", index |-> -1,
                         text |-> <<>>, audio |-> result]>>)
             \o SegmentFrames(i, idx + 1)

\* the frames offered to the transport after log[i]
FramesAfter(i) ==
    LET f == SelectSeq(From(log, i + 1), IsFrame)
    IN  [k \in 1..Len(f) |-> FrameContent(f[k])]

\* C29: in an escalation turn of N segments the N syntheses are started
\* together and, whatever the order in which they end, all N have ended
\* before the first segment frame; the frames that follow are the text of
\* segment i and then the synthesis result of segment i (its own cleaned
\* text, its own chunks), for i = 0..N-1 in ascending order.
C29_FanOutFanIn ==
    \A i \in StreakStarts :
        LET N == log[i].data.message_count
        IN  /\ Len(log) >= i + 1 + N
            /\ IsCall(log[i + 1], "asyncio.gather")
            /\ log[i + 1].data.count = N
            /\ \A k \in 1..N : IsCall(log[i + 1 + k], "text_to_speech_stream")
            /\ { log[i + 1 + k].data.index : k \in 1..N } = 0..(N - 1)
            /\ AllSendsTaken => IsPrefix(SegmentFrames(i, 0), FramesAfter(i))

\* an escalation turn delivered whole whose syntheses did not end in the
\* order of the segments and gave different audio
C29_Witness ==
    /\ scenario # <<>>
    /\ OpeningLine = ThreeSegments
    /\ AllSendsTaken
    /\ \E i \in StreakStarts :
          /\ Len(log) >= i + 4
          /\ log[i + 2].data.index = 2
          /\ log[i + 3].data.index = 0
          /\ \A k \in 1..3 : log[i + 1 + k].ok
          /\ \E j \in (i + 1)..Len(log) : IsSentStatus(log[j], "spam_streak_complete")

\* C30 as claimed: in an escalation turn every spam_message frame is
\* followed by exactly one binary frame, and the frame after that one is the
\* next spam_message or spam_streak_complete.
C30_OneBlobPerSegment ==
    AllSendsTaken =>
        \A i \in StreakStarts :
            LET f == FramesAfter(i)
            IN  \A k \in 1..Len(f) :
                   (f[k].name = "spam_message"
                    /\ \E j \in (k + 1)..Len(f) : f[j].name = "spam_streak_complete") =>
                       /\ f[k + 1].kind = "bytes"
                       /\ f[k + 2].name \in {"spam_message", "spam_streak_complete"}

-----------------------------------------------------------------------------
(* C31.                                                                    *)

IsClose(e) == e.kind = "close"

\* C31 as claimed: when the connection's handler has ended in a terminal
\* state, the server has called close on the transport; in particular after
\* an end_game frame was handled and Finished reached.
C31_TerminalCloses ==
    (pc = "closed" /\ phase \in Terminal) => \E i \in 1..Len(log) : IsClose(log[i])

-----------------------------------------------------------------------------
(* C32.                                                                    *)

\* a text frame is read that is no valid control message
InvalidControlStep ==
    /\ Len(log') > Len(log)
    /\ \/ IsRecv(log'[Len(log) + 1], "malformed")
       \/ IsRecv(log'[Len(log) + 1], "other_action")

\* C32 as claimed: reading a text frame that cannot be parsed, or whose
\* action is none of start_speaking, stop_speaking and end_game, leaves the
\* orchestrator Active with its loop going on, and changes neither the
\* conversation history nor the LiveTranscription objects.
C32_InvalidControlRecovered ==
    [][InvalidControlStep =>
          /\ is_active'
          /\ phase' = "Active"
          /\ session' = session
          /\ transcriber' = transcriber
          /\ stt' = stt]_vars

-----------------------------------------------------------------------------
(* C33.                                                                    *)

\* a step of the orchestrator, as opposed to one of the REST endpoints
OrchestratorStep == log' # log \/ pc' # pc

PersistCalls(l) == { i \in 1..Len(l) : IsCall(l[i], "db_end_game_session") }

\* C33: a run calls db_end_game_session at most once and only while it
\* handles an end_game frame; a step of the orchestrator changes the stored
\* session record only through that call, and then only its status, score
\* and justification; handling start_speaking, stop_speaking and binary
\* frames leaves the store as it is.
C33_OnlyFinalScoreIsWritten ==
    /\ [](Cardinality(PersistCalls(log)) <= 1)
    /\ [][OrchestratorStep =>
             /\ db_scenario' = db_scenario
             /\ PersistCalls(NewEvents) # {} => EndGameStep
             /\ db_session' # db_session =>
                   /\ EndGameStep
                   /\ \E i \in PersistCalls(NewEvents) : NewEvents[i].ok
                   /\ db_session # <<>> /\ db_session' # <<>>
                   /\ db_session'[1].conversation_history = db_session[1].conversation_history
             /\ (StartStep \/ StopStep \/ BytesStep) => db_session' = db_session]_vars

\* the game was ended after a user turn: memory holds the turn, the store
\* holds the score and the history it was created with
C33_Witness ==
    /\ ScorePersisted
    /\ session # <<>> /\ db_session # <<>>
    /\ Len(History) >= 3
    /\ Len(db_session[1].conversation_history) = 1
    /\ db_session[1].final_score # <<>>

-----------------------------------------------------------------------------
(* C34.                                                                    *)

\* the roles of a history go ai, user, ai, ...
Alternates(h) ==
    \A k \in 1..Len(h) : h[k].role = (IF k % 2 = 1 THEN "ai" ELSE "user")

\* C34 as claimed: whenever the loop of run is about to receive the next
\* client frame, the conversation history in memory alternates ai, user,
\* ai, ... and its last entry is an ai entry.
C34_HistoryAlternates ==
    AtReceive =>
        /\ Alternates(History)
        /\ History[Len(History)].role = "ai"

-----------------------------------------------------------------------------
(* C35.                                                                    *)

\* a stop_speaking frame is handled whose transcript is not empty
TurnStep ==
    /\ StopStep
    /\ \E i \in 1..Len(NewEvents) :
          IsCall(NewEvents[i], "transcriber.stop") /\ NewEvents[i].data.text # <<>>

Terminators == {"ai_finished_speaking", "spam_streak_complete", "error"}

\* f ends with a turn-terminating frame and holds no other one
TerminatedOnce(f) ==
    /\ Len(f) > 0
    /\ f[Len(f)].name \in Terminators
    /\ Cardinality({ k \in 1..Len(f) : f[k].name \in Terminators }) = 1

\* C35: a stop_speaking frame with a non-empty transcript, the transport
\* taking every frame of the turn, is answered within its own handling,
\* before the next receive, by frames that end with exactly one
\* turn-terminating frame: error when get_ai_response raised,
\* spam_streak_complete when the reply holds the delimiter,
\* ai_finished_speaking otherwise.
C35_TurnTerminatedOnce ==
    [][(TurnStep /\ \A i \in 1..Len(NewEvents) : IsFrame(NewEvents[i]) => NewEvents[i].ok) =>
          LET f == SelectSeq(NewEvents, IsFrame)
              last == f[Len(f)].name
              escalation == \E k \in 1..Len(f) : f[k].name = "angry_spam_streak"
          IN  /\ TerminatedOnce(f)
              /\ last = "error" <=> ~EngineReturned
              /\ last = "spam_streak_complete" <=> escalation
              /\ pc' = "loop" /\ is_active']_vars

\* an escalation turn answered to its end
C35_Witness ==
    /\ AllSendsTaken
    /\ \E i \in 1..Len(log) :
          /\ IsRecv(log[i], "stop_speaking")
          /\ \E j \in (i + 1)..Len(log) : IsSentStatus(log[j], "user_response_text")
          /\ IsSentStatus(log[Len(log)], "spam_streak_complete")

\* C35 as claimed: every stop_speaking frame with a non-empty transcript is
\* answered, before the next receive, by frames that end with exactly one
\* of ai_finished_speaking, spam_streak_complete and error.
C35_Original ==
    [][TurnStep => TerminatedOnce(SelectSeq(NewEvents, IsSent))]_vars

-----------------------------------------------------------------------------
(* C36.                                                                    *)

\* C36 as claimed: on one connection the server calls close on the
\* transport at most once; the close 1008 of the load failure and the
\* close 1000 of the endpoint's finally are never both called.
C36_AtMostOneClose ==
    CountIn(log, IsClose) <= 1

====
